---- MODULE Spec2Model ----
(***************************************************************************)
(* Zod-schema derivation of prisma-generator-nestjs.                       *)
(*                                                                         *)
(* The registry holds one model M whose fields are derived into the five   *)
(* representations (connect, create, update, entity, plain) by the         *)
(* compute*ZodParams functions; generate*ZodSchema compiles the derived    *)
(* fields into validator expressions with fieldToZodValidator.             *)
(*                                                                         *)
(* A JavaScript object is a TLA+ record (a function on strings); a key     *)
(* that the object lacks is a key outside the record's DOMAIN, so that     *)
(* `undefined` is never confused with `false`.  A string built by          *)
(* concatenation is the sequence of its pieces.                            *)
(***************************************************************************)
EXTENDS Integers, Sequences, FiniteSets, TLC

\* ------------------------------------------------------------------ bounds

\* Largest number of annotations in one field's documentation.
MaxTags == 1

\* Largest number of fields that follow the first field of the model.
MaxCompanions == 1

\* ------------------------------------------------------------- annotations

DTO_CREATE_HIDDEN == "@DtoCreateHidden"
DTO_CREATE_OPTIONAL == "@DtoCreateOptional"
DTO_CREATE_REQUIRED == "@DtoCreateRequired"
DTO_ENTITY_HIDDEN == "@DtoEntityHidden"
DTO_CONNECT_HIDDEN == "@DtoConnectHidden"
DTO_UPDATE_HIDDEN == "@DtoUpdateHidden"
DTO_UPDATE_REQUIRED == "@DtoUpdateRequired"
DTO_RELATION_INCLUDE_ID == "@DtoRelationIncludeId"
DTO_RELATION_REQUIRED == "@DtoRelationRequired"
DTO_OVERRIDE_TYPE == "@DtoOverrideType"
DTO_CAST_TYPE == "@DtoCastType"
DTO_IGNORE_MODEL == "@DtoIgnoreModel"

\* The annotations a field's documentation may carry.
FieldAnnotations ==
  { DTO_CREATE_HIDDEN, DTO_CREATE_OPTIONAL, DTO_CREATE_REQUIRED,
    DTO_ENTITY_HIDDEN, DTO_CONNECT_HIDDEN, DTO_UPDATE_HIDDEN,
    DTO_UPDATE_REQUIRED, DTO_RELATION_INCLUDE_ID, DTO_RELATION_REQUIRED,
    DTO_OVERRIDE_TYPE, DTO_CAST_TYPE }

\* ------------------------------------------------------------ the registry

\* The model under derivation and the other names of allModels: `Other` is a
\* model, `Address` an embedded type; `Ghost` is in no registry.
ModelName == "M"
RegistryNames == { "M", "Other", "Address" }

\* model.output of a registry entry: the directory of its dto files and of
\* its entity files.
OutputOf(name) == [ dto |-> <<name, "dto">>, entity |-> <<name, "entities">> ]

\* ---------------------------------------------------------- sequence tools

RECURSIVE ConcatAll(_)
ConcatAll(ss) == IF ss = <<>> THEN <<>> ELSE Head(ss) \o ConcatAll(Tail(ss))

Range(s) == { s[i] : i \in DOMAIN s }

\* Array.prototype.includes
Includes(s, x) == \E i \in DOMAIN s : s[i] = x

\* A missing key reads as undefined, which is falsy.
Truthy(obj, key) == key \in DOMAIN obj /\ obj[key] = TRUE

\* ------------------------------------------------------- field classifiers

isAnnotatedWith(field, annotation) == annotation \in field.documentation

isId(field) == field.isId
isUnique(field) == field.isUnique
isReadOnly(field) == field.isReadOnly
isUpdatedAt(field) == field.isUpdatedAt
hasDefaultValue(field) == field.default # "none"
isRelation(field) == field.kind = "object" /\ field.relationName # ""
isType(field) == field.kind = "object" /\ field.relationName = ""
isIdWithDefaultValue(field) == isId(field) /\ hasDefaultValue(field)
isRequiredWithDefaultValue(field) ==
  field.isRequired /\ hasDefaultValue(field) /\ ~isId(field)

\* ---------------------------------------------------------------- helpers

\* { ...field, ...overrides }
mapDMMFToParsedField(field, overrides) ==
  [ k \in (DOMAIN field) \cup (DOMAIN overrides) |->
      IF k \in DOMAIN overrides THEN overrides[k] ELSE field[k] ]

\* Foreign-key scalar name -> the names of the relation fields it backs, in
\* field order.
getRelationScalars(fields) ==
  LET scalars == UNION { Range(fields[i].relationFromFields) : i \in DOMAIN fields }
      backers(s) ==
        ConcatAll([ i \in DOMAIN fields |->
          IF Includes(fields[i].relationFromFields, s)
          THEN <<fields[i].name>> ELSE <<>> ])
  IN  [ s \in scalars |-> backers(s) ]

\* Import requirements with the same `from` merge into the first of them,
\* their names unioned in first-seen order.
RECURSIVE Dedup(_)
Dedup(s) ==
  IF s = <<>> THEN <<>>
  ELSE LET rest == Dedup(SubSeq(s, 1, Len(s) - 1))
           x == s[Len(s)]
       IN  IF Includes(rest, x) THEN rest ELSE Append(rest, x)

zipImportStatementParams(items) ==
  LET froms == Dedup([ i \in DOMAIN items |-> items[i].from ])
  IN  [ j \in DOMAIN froms |->
        [ from |-> froms[j],
          destruct |->
            Dedup(ConcatAll([ i \in DOMAIN items |->
              IF items[i].from = froms[j] THEN items[i].destruct ELSE <<>> ])) ] ]

makeImportsFromZod == << [ from |-> <<"zod">>, destruct |-> <<"z">> ] >>

\* templateHelpers.<kind>ZodSchemaName(name)
ZodSchemaName(kind, name) == kind \o "ZodSchemaName(" \o name \o ")"

\* getRelativePath(from, to) + sep + templateHelpers.<kind>ZodSchemaFilename(name)
ImportFrom(fromDir, toDir, kind, name) == <<fromDir, toDir, kind, name>>


\* -------------------------------------------------- derivers: shared parts

\* Object.keys(getRelationScalars(model.fields)).includes(field.name)
isRelationScalar(field, fields) == field.name \in DOMAIN getRelationScalars(fields)

hasCustomTypeOverride(field) ==
  isAnnotatedWith(field, DTO_OVERRIDE_TYPE) \/ isAnnotatedWith(field, DTO_CAST_TYPE)

\* relationNames.some(name => the relation field is schema-required or
\* annotated @DtoRelationRequired)
isAnyRelationRequired(field, fields) ==
  LET relationNames == getRelationScalars(fields)[field.name]
  IN  \E j \in DOMAIN relationNames :
        \E i \in DOMAIN fields :
          /\ fields[i].name = relationNames[j]
          /\ \A h \in 1..(i - 1) : fields[h].name # relationNames[j]
          /\ (fields[i].isRequired \/ isAnnotatedWith(fields[i], DTO_RELATION_REQUIRED))

\* `field.isReadOnly = false` of the create and update derivers: the
\* assignment writes to the field object of the registry.
ForceNotReadOnly(field, fields) ==
  IF isAnnotatedWith(field, DTO_RELATION_INCLUDE_ID) /\ isRelationScalar(field, fields)
  THEN [ field EXCEPT !.isReadOnly = FALSE ]
  ELSE field

\* "Skip relation scalar fields unless annotated"
SkipsRelationScalar(field, fields) ==
  ~isAnnotatedWith(field, DTO_RELATION_INCLUDE_ID) /\ isRelationScalar(field, fields)

NoImports == [ imports |-> <<>>, lazyRelations |-> <<>> ]

\* The embedded-type branch of the plain, create and update derivers: the
\* import of the target's schema of the same kind, and the lazy marker.
TypeImports(field, kind) ==
  IF isType(field) /\ field.type # ModelName /\ field.type \in RegistryNames
  THEN [ imports |->
           << [ destruct |-> << ZodSchemaName(kind, field.type) >>,
                from |-> ImportFrom(OutputOf(ModelName).dto,
                                    OutputOf(field.type).dto, kind, field.type) ] >>,
         lazyRelations |-> << field.type >> ]
  ELSE NoImports

collectEnumImports(fields) ==
  LET enumTypes == Dedup(ConcatAll([ i \in DOMAIN fields |->
                     IF fields[i].kind = "enum" THEN << fields[i].type >> ELSE <<>> ]))
  IN  IF enumTypes = <<>> THEN <<>>
      ELSE << [ from |-> <<"prismaClientImportPath">>, destruct |-> enumTypes ] >>

\* The value a deriver returns, from what each field of the model yielded.
Bundle(perField) ==
  LET fields == ConcatAll([ i \in DOMAIN perField |-> perField[i].fields ])
      imports == ConcatAll([ i \in DOMAIN perField |-> perField[i].imports ])
  IN  [ model |-> ModelName,
        fields |-> fields,
        imports |-> zipImportStatementParams(
                      makeImportsFromZod \o collectEnumImports(fields) \o imports),
        lazyRelations |->
          ConcatAll([ i \in DOMAIN perField |-> perField[i].lazyRelations ]) ]

Skipped == [ fields |-> <<>>, imports |-> <<>>, lazyRelations |-> <<>> ]

Emitted(field, overrides, imp) ==
  [ fields |-> << mapDMMFToParsedField(field, overrides @@ [ modelName |-> ModelName ]) >>,
    imports |-> imp.imports,
    lazyRelations |-> imp.lazyRelations ]

\* ------------------------------------------------------------------ entity

EntitySkips(field) == isAnnotatedWith(field, DTO_ENTITY_HIDDEN)

\* EntityOverrides with a relation required as soon as the schema requires it.
EntityOverridesSchemaRequired(field, fields) ==
  LET isRelationRequired ==
        isAnnotatedWith(field, DTO_RELATION_REQUIRED) \/ field.isRequired
  IN  IF isRelationScalar(field, fields)
      THEN [ isRequired |-> TRUE, isNullable |-> ~isAnyRelationRequired(field, fields) ]
      ELSE IF isRelation(field)
      THEN [ isRequired |-> isRelationRequired,
             isNullable |-> IF field.isList THEN FALSE
                            ELSE IF field.isRequired THEN FALSE
                            ELSE ~isRelationRequired ]
      ELSE [ isRequired |-> TRUE, isNullable |-> ~field.isRequired ]

EntityOverrides(field, fields) ==
  LET isRelationRequired == isAnnotatedWith(field, DTO_RELATION_REQUIRED)
      base == [ isRequired |-> TRUE, isNullable |-> ~field.isRequired ]
      rel == IF isRelation(field)
             THEN [ isRequired |-> isRelationRequired,
                    isNullable |-> IF field.isList THEN FALSE
                                   ELSE IF field.isRequired THEN FALSE
                                   ELSE ~isRelationRequired ]
             ELSE base
  IN  IF isRelationScalar(field, fields)
      THEN [ isRequired |-> TRUE, isNullable |-> ~isAnyRelationRequired(field, fields) ]
      ELSE rel

EntityTypeImports(field) ==
  IF /\ isType(field)
     /\ field.type # ModelName /\ ~hasCustomTypeOverride(field)
     /\ field.type \in RegistryNames
  THEN [ imports |->
           << [ destruct |-> << ZodSchemaName("plain", field.type) >>,
                from |-> ImportFrom(OutputOf(ModelName).entity,
                                    OutputOf(field.type).dto, "plain", field.type) ] >>,
         lazyRelations |-> << field.type >> ]
  ELSE NoImports

\* EntityRelationImports with the lazy marker recorded only beside the import.
EntityRelationImportsLazyWithImport(field) ==
  IF /\ isRelation(field)
     /\ field.type # ModelName /\ ~hasCustomTypeOverride(field)
     /\ field.type \in RegistryNames
  THEN [ imports |->
           << [ destruct |-> << ZodSchemaName("entity", field.type) >>,
                from |-> ImportFrom(OutputOf(ModelName).entity,
                                    OutputOf(field.type).entity, "entity", field.type) ] >>,
         lazyRelations |-> << field.type >> ]
  ELSE NoImports

EntityRelationImports(field) ==
  IF isRelation(field)
  THEN [ imports |->
           IF /\ field.type # ModelName /\ ~hasCustomTypeOverride(field)
              /\ field.type \in RegistryNames
           THEN << [ destruct |-> << ZodSchemaName("entity", field.type) >>,
                     from |-> ImportFrom(OutputOf(ModelName).entity,
                                         OutputOf(field.type).entity, "entity", field.type) ] >>
           ELSE <<>>,
         lazyRelations |->
           IF ~hasCustomTypeOverride(field) THEN << field.type >> ELSE <<>> ]
  ELSE NoImports

EntityImports(field) ==
  [ imports |-> EntityTypeImports(field).imports \o EntityRelationImports(field).imports,
    lazyRelations |-> EntityTypeImports(field).lazyRelations
                        \o EntityRelationImports(field).lazyRelations ]

computeEntityZodParams(fields) ==
  Bundle([ i \in DOMAIN fields |->
    IF EntitySkips(fields[i]) THEN Skipped
    ELSE Emitted(fields[i], EntityOverrides(fields[i], fields), EntityImports(fields[i])) ])

\* ------------------------------------------------------------------- plain

PlainSkips(field, fields) == isRelation(field) \/ SkipsRelationScalar(field, fields)

\* PlainOverrides with the schema's own requiredness carried over.
PlainOverridesSchemaRequired(field) ==
  [ isRequired |-> field.isRequired, isNullable |-> ~field.isRequired ]

PlainOverrides(field) == [ isRequired |-> TRUE, isNullable |-> ~field.isRequired ]

computePlainZodParams(fields) ==
  Bundle([ i \in DOMAIN fields |->
    IF PlainSkips(fields[i], fields) THEN Skipped
    ELSE Emitted(fields[i], PlainOverrides(fields[i]), TypeImports(fields[i], "plain")) ])

\* ------------------------------------------------------------------ create

isDtoOptional(field) ==
  isAnnotatedWith(field, DTO_CREATE_OPTIONAL) \/ isAnnotatedWith(field, DTO_CREATE_REQUIRED)

\* CreateSkips without the omission of an id that has a default value.
CreateSkipsKeepsIdWithDefault(field, fields, showDefaultValues) ==
  \/ isReadOnly(field)
  \/ isAnnotatedWith(field, DTO_CREATE_HIDDEN)
  \/ isRelation(field)
  \/ SkipsRelationScalar(field, fields)
  \/ /\ ~isDtoOptional(field)
     /\ \/ isUpdatedAt(field)
        \/ isRequiredWithDefaultValue(field) /\ ~showDefaultValues

\* `field` is the field after ForceNotReadOnly.
CreateSkips(field, fields, showDefaultValues) ==
  \/ isReadOnly(field)
  \/ isAnnotatedWith(field, DTO_CREATE_HIDDEN)
  \/ isRelation(field)
  \/ SkipsRelationScalar(field, fields)
  \/ /\ ~isDtoOptional(field)
     /\ \/ isIdWithDefaultValue(field)
        \/ isUpdatedAt(field)
        \/ isRequiredWithDefaultValue(field) /\ ~showDefaultValues

\* CreateOverrides with isNullable the inverse of the final isRequired.
CreateOverridesInverseOfFinal(field, showDefaultValues) ==
  LET o1 == IF ~isDtoOptional(field) /\ isRequiredWithDefaultValue(field) /\ showDefaultValues
            THEN [ isRequired |-> FALSE ] ELSE << >>
      o2 == IF isAnnotatedWith(field, DTO_CREATE_OPTIONAL)
            THEN [ isRequired |-> FALSE ] ELSE o1
      o3 == IF isAnnotatedWith(field, DTO_CREATE_REQUIRED)
            THEN [ isRequired |-> TRUE ] ELSE o2
      final == IF "isRequired" \in DOMAIN o3 THEN o3.isRequired ELSE field.isRequired
  IN  o3 @@ [ isNullable |-> ~final ]

CreateOverrides(field, showDefaultValues) ==
  LET o1 == IF ~isDtoOptional(field) /\ isRequiredWithDefaultValue(field) /\ showDefaultValues
            THEN [ isRequired |-> FALSE ] ELSE << >>
      o2 == IF isAnnotatedWith(field, DTO_CREATE_OPTIONAL)
            THEN [ isRequired |-> FALSE ] ELSE o1
      o3 == IF isAnnotatedWith(field, DTO_CREATE_REQUIRED)
            THEN [ isRequired |-> TRUE ] ELSE o2
  IN  o3 @@ [ isNullable |-> ~(field.isRequired \/ Truthy(o3, "isRequired")) ]

computeCreateZodParams(fields, showDefaultValues) ==
  Bundle([ i \in DOMAIN fields |->
    LET field == ForceNotReadOnly(fields[i], fields)
    IN  IF CreateSkips(field, fields, showDefaultValues) THEN Skipped
        ELSE Emitted(field, CreateOverrides(field, showDefaultValues),
                     TypeImports(field, "create")) ])

\* ------------------------------------------------------------------ update

\* UpdateSkips without the omission of relation fields.
UpdateSkipsKeepsRelations(field, fields) ==
  \/ isReadOnly(field)
  \/ isAnnotatedWith(field, DTO_UPDATE_HIDDEN)
  \/ isId(field)
  \/ SkipsRelationScalar(field, fields)

\* `field` is the field after ForceNotReadOnly.
UpdateSkips(field, fields) ==
  \/ isReadOnly(field)
  \/ isAnnotatedWith(field, DTO_UPDATE_HIDDEN)
  \/ isId(field)
  \/ isRelation(field)
  \/ SkipsRelationScalar(field, fields)

UpdateOverrides(field) ==
  IF isAnnotatedWith(field, DTO_UPDATE_REQUIRED)
  THEN [ isRequired |-> TRUE, isNullable |-> FALSE ]
  ELSE [ isRequired |-> FALSE, isNullable |-> TRUE ]

computeUpdateZodParams(fields) ==
  Bundle([ i \in DOMAIN fields |->
    LET field == ForceNotReadOnly(fields[i], fields)
    IN  IF UpdateSkips(field, fields) THEN Skipped
        ELSE Emitted(field, UpdateOverrides(field), TypeImports(field, "update")) ])

\* The registry after the create or the update deriver has gone over it.
RegistryAfterForce(fields) ==
  [ i \in DOMAIN fields |-> ForceNotReadOnly(fields[i], fields) ]

\* ----------------------------------------------------------------- connect

ConnectCandidates(fields) ==
  LET idFields == SelectSeq(fields,
        LAMBDA f : ~isAnnotatedWith(f, DTO_CONNECT_HIDDEN) /\ isId(f))
      uniqueFields == SelectSeq(fields,
        LAMBDA f : ~isAnnotatedWith(f, DTO_CONNECT_HIDDEN) /\ isUnique(f))
  IN  idFields \o SelectSeq(uniqueFields,
        LAMBDA u : \A i \in DOMAIN idFields : idFields[i].name # u.name)

ConnectOverrides(allUniqueFields) ==
  IF Len(allUniqueFields) > 1
  THEN [ isRequired |-> FALSE, isNullable |-> FALSE ]
  ELSE << >>

computeConnectZodParams(fields) ==
  LET allUniqueFields == ConnectCandidates(fields)
  IN  Bundle([ i \in DOMAIN allUniqueFields |->
        Emitted(allUniqueFields[i], ConnectOverrides(allUniqueFields), NoImports) ])


\* ------------------------------------------- validator expression compiler

PrismaScalarToZod ==
  [ String |-> "z.string()", Boolean |-> "z.boolean()", Int |-> "z.int()",
    BigInt |-> "z.bigint()", Float |-> "z.number()", Decimal |-> "z.number()",
    DateTime |-> "z.date()", Json |-> "z.record(z.any())",
    Bytes |-> "z.instanceof(Buffer)" ]

\* scalarToZod with another fallback for a type the table lacks.
scalarToZodUnknownFallback(scalar) ==
  IF scalar \in DOMAIN PrismaScalarToZod THEN PrismaScalarToZod[scalar] ELSE "z.unknown()"

scalarToZod(scalar) ==
  IF scalar \in DOMAIN PrismaScalarToZod THEN PrismaScalarToZod[scalar] ELSE "z.any()"

isUuidField(field) ==
  field.isId /\ field.type = "String" /\ field.default = "uuid"

isAutoTimestamp(field) ==
  field.type = "DateTime" /\ (field.isUpdatedAt \/ field.default = "now")

\* BaseValidator with the relation and enum rules ahead of the custom-type rule.
BaseValidatorCustomTypeLast(field, schemaKind) ==
  IF isRelation(field) \/ isType(field)
  THEN << "z.lazy(() => ", ZodSchemaName(schemaKind, field.type), ")" >>
  ELSE IF field.kind = "enum" THEN << "z.nativeEnum(", field.type, ")" >>
  ELSE IF hasCustomTypeOverride(field) THEN << "z.any()" >>
  ELSE IF isUuidField(field) THEN << "z.uuidv7()" >>
  ELSE IF isAutoTimestamp(field)
       THEN << "z.iso.datetime().pipe(z.transform((v) => new Date(v)))" >>
  ELSE << scalarToZod(field.type) >>

\* The expression before the array and optionality modifiers.
BaseValidator(field, schemaKind) ==
  IF hasCustomTypeOverride(field) THEN << "z.any()" >>
  ELSE IF isRelation(field) \/ isType(field)
       THEN << "z.lazy(() => ", ZodSchemaName(schemaKind, field.type), ")" >>
  ELSE IF field.kind = "enum" THEN << "z.nativeEnum(", field.type, ")" >>
  ELSE IF isUuidField(field) THEN << "z.uuidv7()" >>
  ELSE IF isAutoTimestamp(field)
       THEN << "z.iso.datetime().pipe(z.transform((v) => new Date(v)))" >>
  ELSE << scalarToZod(field.type) >>

\* OptionalityModifier with the update rule applied to id fields as well.
OptionalityModifierIdsToo(field, isUpdateSchema) ==
  IF isUpdateSchema THEN << ".nullish()" >>
  ELSE IF Truthy(field, "isNullable") /\ ~field.isRequired THEN << ".nullish()" >>
  ELSE IF Truthy(field, "isNullable") THEN << ".nullable()" >>
  ELSE IF ~field.isRequired THEN << ".nullish()" >>
  ELSE << >>

\* "Handle optionality"
OptionalityModifier(field, isUpdateSchema) ==
  IF isUpdateSchema /\ ~field.isId THEN << ".nullish()" >>
  ELSE IF Truthy(field, "isNullable") /\ ~field.isRequired THEN << ".nullish()" >>
  ELSE IF Truthy(field, "isNullable") THEN << ".nullable()" >>
  ELSE IF ~field.isRequired THEN << ".nullish()" >>
  ELSE << >>

fieldToZodValidator(field, schemaKind, isUpdateSchema) ==
  BaseValidator(field, schemaKind)
    \o (IF field.isList THEN << ".array()" >> ELSE << >>)
    \o OptionalityModifier(field, isUpdateSchema)

fieldsToZodProps(fields, schemaKind, isUpdateSchema) ==
  [ i \in DOMAIN fields |->
      [ name |-> fields[i].name,
        validator |-> fieldToZodValidator(fields[i], schemaKind, isUpdateSchema) ] ]

\* generate<Kind>ZodSchema: the import statements, the schema's name and its
\* properties; only the update schema compiles with isUpdateSchema.
generateZodSchema(kind, params) ==
  [ kind |-> kind,
    imports |-> params.imports,
    name |-> ZodSchemaName(kind, params.model),
    props |-> fieldsToZodProps(params.fields, kind, kind = "update") ]

\* ------------------------------------------------------- admissible fields

Field(name, kind, type, list, required, key, default, updatedAt, readOnly, relationName, relationFromFields, documentation) ==
  [ name |-> name, kind |-> kind, type |-> type, isList |-> list,
    isRequired |-> required, isId |-> (key = "id"), isUnique |-> (key = "unique"),
    isReadOnly |-> readOnly, isUpdatedAt |-> updatedAt, default |-> default,
    relationName |-> relationName, relationFromFields |-> relationFromFields,
    documentation |-> documentation ]

\* Documentation texts with at most MaxTags annotations.
Documentations == { d \in SUBSET FieldAnnotations : Cardinality(d) <= MaxTags }

\* Scalar fields the schema language admits: an id is required and single, a
\* list is required and has neither key nor default, autoincrement() is a
\* required Int, uuid() the default of a String id, now() and @updatedAt a
\* DateTime.
ScalarFields(name, docs) ==
  { Field(name, "scalar",
          IF upd \/ dflt = "now" THEN "DateTime"
          ELSE IF dflt = "autoincrement" THEN "Int" ELSE "String",
          list, req, key, dflt, upd, ro, "", << >>, d) :
      <<list, req, upd, ro>> \in
        { t \in BOOLEAN \X BOOLEAN \X BOOLEAN \X BOOLEAN : t[1] => (t[2] /\ ~t[3]) },
      <<key, dflt>> \in { "id", "unique", "none" } \X { "none", "autoincrement", "uuid", "now" },
      d \in docs }

ValidScalar(f) ==
  /\ f.isId => (f.isRequired /\ ~f.isList /\ ~f.isUpdatedAt /\ f.default # "now")
  /\ f.isList => (~f.isUnique /\ f.default = "none")
  /\ f.isUpdatedAt => f.default = "none"
  /\ f.default = "uuid" => f.isId
  /\ f.default = "autoincrement" => f.isRequired

EnumFields(name, docs) ==
  { Field(name, "enum", "Role", FALSE, req, "none", "none", FALSE, FALSE, "", << >>, d) :
      req \in BOOLEAN, d \in docs }

\* A relation to the model itself, to another model of the registry or to a
\* model the registry lacks.
RelationFields(name, froms, docs) ==
  { Field(name, "object", type, card = "list", card # "optional", "none", "none",
          FALSE, FALSE, "rel", IF card = "list" THEN << >> ELSE from, d) :
      type \in { "M", "Other", "Ghost" }, card \in { "required", "optional", "list" },
      from \in froms, d \in docs }

\* An embedded-type field.
TypeFields(name, docs) ==
  { Field(name, "object", type, card = "list", card # "optional", "none", "none",
          FALSE, FALSE, "", << >>, d) :
      type \in { "M", "Address", "Ghost" }, card \in { "required", "optional", "list" },
      d \in docs }

\* The first field of the model: any admissible field.
FirstFields ==
  { f \in ScalarFields("f1", Documentations) : ValidScalar(f) }
    \cup EnumFields("f1", Documentations)
    \cup RelationFields("f1", { << >> }, Documentations)
    \cup TypeFields("f1", Documentations)

\* The fields that follow it: a relation to another model that the first
\* field backs as its foreign key, and a further unique scalar.
CompanionFields(name, first) ==
  ( IF first.kind = "scalar" /\ ~first.isList
    THEN { f \in RelationFields(name, { << "f1" >> }, { {}, { DTO_RELATION_REQUIRED } }) :
             f.type = "Other" /\ ~f.isList }
    ELSE {} )
    \cup { Field(name, "scalar", "String", FALSE, req, "unique", "none", FALSE, FALSE,
                 "", << >>, {}) : req \in BOOLEAN }

CompanionName(i) == IF i = 1 THEN "f2" ELSE IF i = 2 THEN "f3" ELSE "f4"

RECURSIVE Companions(_, _)
Companions(n, first) ==
  IF n = 0 THEN { << >> }
  ELSE { Append(s, c) : s \in Companions(n - 1, first),
                        c \in CompanionFields(CompanionName(n), first) }

Models ==
  UNION { { << first >> \o rest :
            rest \in UNION { Companions(n, first) : n \in 0..MaxCompanions } } :
          first \in FirstFields }

\* ------------------------------------------------------------ the machine

VARIABLES
  fields,    \* the fields of model M in the registry
  loaded,    \* the same fields as the schema loader handed them over
  last,      \* what the last deriver call returned, and how it was called
  schema,    \* the schema generated from `last`, or NoSchema
  dmmf,      \* run: dmmf.datamodel (types, models, enums)
  options,   \* run: generateFileTypes, generateZodSchemas, noDependencies
  pc,        \* run: where the call is
  todo,      \* run: the filtered types and models still to be processed
  files,     \* run: the file specifications built so far
  result,    \* run: what the call returned or threw
  parsed,    \* compiler: the ParsedField handed to fieldToZodValidator
  compiled   \* compiler: the validator expression it returned

deriverVars == << fields, loaded, last, schema >>
runVars == << dmmf, options, pc, todo, files, result >>
compilerVars == << parsed, compiled >>
vars ==
  << fields, loaded, last, schema, dmmf, options, pc, todo, files, result,
     parsed, compiled >>

NoCall == [ kind |-> "none" ]
NoSchema == [ kind |-> "none" ]
NoResult == [ kind |-> "none" ]
NoDmmf == [ types |-> << >>, models |-> << >>, enums |-> << >> ]
NoOptions ==
  [ generateFileTypes |-> "all", generateZodSchemas |-> FALSE, noDependencies |-> FALSE ]

NoField == [ name |-> "" ]
NoValidator == [ kind |-> "none" ]

CompilerIdle ==
  /\ parsed = NoField
  /\ compiled = NoValidator

RunIdle ==
  /\ dmmf = NoDmmf
  /\ options = NoOptions
  /\ pc = "idle"
  /\ todo = [ types |-> << >>, models |-> << >> ]
  /\ files = << >>
  /\ result = NoResult

Init ==
  /\ fields \in Models
  /\ loaded = fields
  /\ last = NoCall
  /\ schema = NoSchema
  /\ RunIdle
  /\ CompilerIdle

Returned(kind, showDefaultValues, params) ==
  [ kind |-> kind, showDefaultValues |-> showDefaultValues, params |-> params ]

ComputeConnect ==
  /\ last' = Returned("connect", FALSE, computeConnectZodParams(fields))
  /\ schema' = NoSchema
  /\ UNCHANGED << fields, loaded >>
  /\ UNCHANGED runVars
  /\ UNCHANGED compilerVars

ComputeCreate ==
  \E showDefaultValues \in BOOLEAN :
    /\ last' = Returned("create", showDefaultValues,
                        computeCreateZodParams(fields, showDefaultValues))
    /\ fields' = RegistryAfterForce(fields)
    /\ schema' = NoSchema
    /\ UNCHANGED loaded
    /\ UNCHANGED runVars
    /\ UNCHANGED compilerVars

ComputeUpdate ==
  /\ last' = Returned("update", FALSE, computeUpdateZodParams(fields))
  /\ fields' = RegistryAfterForce(fields)
  /\ schema' = NoSchema
  /\ UNCHANGED loaded
  /\ UNCHANGED runVars
  /\ UNCHANGED compilerVars

ComputeEntity ==
  /\ last' = Returned("entity", FALSE, computeEntityZodParams(fields))
  /\ schema' = NoSchema
  /\ UNCHANGED << fields, loaded >>
  /\ UNCHANGED runVars
  /\ UNCHANGED compilerVars

ComputePlain ==
  /\ last' = Returned("plain", FALSE, computePlainZodParams(fields))
  /\ schema' = NoSchema
  /\ UNCHANGED << fields, loaded >>
  /\ UNCHANGED runVars
  /\ UNCHANGED compilerVars

GenerateZodSchema ==
  /\ last.kind # "none"
  /\ schema = NoSchema
  /\ schema' = generateZodSchema(last.kind, last.params)
  /\ UNCHANGED << fields, loaded, last >>
  /\ UNCHANGED runVars
  /\ UNCHANGED compilerVars

Next ==
  \/ ComputeConnect
  \/ ComputeCreate
  \/ ComputeUpdate
  \/ ComputeEntity
  \/ ComputePlain
  \/ GenerateZodSchema

Spec == Init /\ [][Next]_vars

\* --------------------------------------------------------------------- run

\* Largest number of embedded types and of models in dmmf.datamodel.
MaxTypes == 2
MaxModels == 2

KnownFileTypes == { "all", "dto", "entity" }

\* A generateFileTypes value: the three known ones and one that is none of them.
FileTypesValues == KnownFileTypes \cup { "zod" }

Entry(name, ignored) ==
  [ name |-> name, documentation |-> IF ignored THEN { DTO_IGNORE_MODEL } ELSE {} ]

Entries(prefix, max) ==
  UNION { { [ i \in 1..n |-> Entry(<<prefix, i>>, i \in ign) ] : ign \in SUBSET (1..n) } :
          n \in 0..max }

\* .filter((model) => !isAnnotatedWith(model, DTO_IGNORE_MODEL))
Filtered(entries) == SelectSeq(entries, LAMBDA m : ~isAnnotatedWith(m, DTO_IGNORE_MODEL))

FileSpec(dir, filename, generator, model) ==
  [ fileName |-> << dir, filename, model.name >>, content |-> << generator, model.name >> ]

\* The three DTO files of an embedded type, then its three schemas if enabled.
TypeFiles(model, opts) ==
  << FileSpec("dto", "createDtoFilename", "generateCreateDto", model),
     FileSpec("dto", "updateDtoFilename", "generateUpdateDto", model),
     FileSpec("dto", "plainDtoFilename", "generatePlainDto", model) >>
  \o ( IF opts.generateZodSchemas
       THEN << FileSpec("dto", "createZodSchemaFilename", "generateCreateZodSchema", model),
               FileSpec("dto", "updateZodSchemaFilename", "generateUpdateZodSchema", model),
               FileSpec("dto", "plainZodSchemaFilename", "generatePlainZodSchema", model) >>
       ELSE << >> )

\* The files of the switch over generateFileTypes; the caller has excluded
\* the default branch.
SwitchFiles(model, generateFileTypes) ==
  LET connectDto == FileSpec("dto", "connectDtoFilename", "generateConnectDto", model)
      createDto == FileSpec("dto", "createDtoFilename", "generateCreateDto", model)
      updateDto == FileSpec("dto", "updateDtoFilename", "generateUpdateDto", model)
      entity == FileSpec("entity", "entityFilename", "generateEntity", model)
      plainDto == FileSpec("dto", "plainDtoFilename", "generatePlainDto", model)
  IN  IF generateFileTypes = "all"
      THEN << connectDto, createDto, updateDto, entity, plainDto >>
      ELSE IF generateFileTypes = "dto"
      THEN << connectDto, createDto, updateDto, plainDto >>
      ELSE << entity >>

ModelZodFiles(model, opts) ==
  IF ~opts.generateZodSchemas THEN << >>
  ELSE ( IF opts.generateFileTypes # "entity"
         THEN << FileSpec("dto", "connectZodSchemaFilename", "generateConnectZodSchema", model),
                 FileSpec("dto", "createZodSchemaFilename", "generateCreateZodSchema", model),
                 FileSpec("dto", "updateZodSchemaFilename", "generateUpdateZodSchema", model),
                 FileSpec("dto", "plainZodSchemaFilename", "generatePlainZodSchema", model) >>
         ELSE << >> )
       \o ( IF opts.generateFileTypes \in { "all", "entity" }
            THEN << FileSpec("entity", "entityZodSchemaFilename",
                             "generateEntityZodSchema", model) >>
            ELSE << >> )

EnumFiles(d, opts) ==
  IF opts.noDependencies /\ Len(d.enums) > 0
  THEN << [ fileName |-> << "output", "enums.ts" >>, content |-> << "generateEnums" >> ] >>
  ELSE << >>

Thrown(message) == [ kind |-> "thrown", message |-> message ]

RunInit ==
  /\ fields = << >>
  /\ loaded = << >>
  /\ last = NoCall
  /\ schema = NoSchema
  /\ dmmf \in { [ types |-> t, models |-> m, enums |-> e ] :
                  t \in Entries("Type", MaxTypes), m \in Entries("Model", MaxModels),
                  e \in { << >>, << "Role" >> } }
  /\ options \in [ generateFileTypes : FileTypesValues,
                   generateZodSchemas : BOOLEAN,
                   noDependencies : BOOLEAN ]
  /\ pc = "start"
  /\ todo = [ types |-> << >>, models |-> << >> ]
  /\ files = << >>
  /\ result = NoResult
  /\ CompilerIdle

\* EntityOnlyWithTypes that tolerates a single type.
EntityOnlyWithSeveralTypes(generateFileTypes, filteredTypes) ==
  generateFileTypes = "entity" /\ Len(filteredTypes) > 1

\* generateFileTypes === 'entity' && filteredTypes.length
EntityOnlyWithTypes(generateFileTypes, filteredTypes) ==
  generateFileTypes = "entity" /\ Len(filteredTypes) > 0

\* From the call to the end of the enum files: the types and the models are
\* filtered, and entity-only output with a type left is refused.
RunFilter ==
  /\ pc = "start"
  /\ LET filteredTypes == Filtered(dmmf.types)
     IN  IF EntityOnlyWithTypes(options.generateFileTypes, filteredTypes)
         THEN /\ pc' = "done"
              /\ result' = Thrown("Generating only Entity files while having complex types is not possible.")
              /\ UNCHANGED << todo, files >>
         ELSE /\ pc' = "types"
              /\ todo' = [ types |-> filteredTypes, models |-> Filtered(dmmf.models) ]
              /\ UNCHANGED << files, result >>
  /\ UNCHANGED << dmmf, options >>
  /\ UNCHANGED deriverVars
  /\ UNCHANGED compilerVars

\* One turn of filteredTypes.map
RunType ==
  /\ pc = "types"
  /\ todo.types # << >>
  /\ files' = files \o TypeFiles(Head(todo.types), options)
  /\ todo' = [ todo EXCEPT !.types = Tail(@) ]
  /\ UNCHANGED << dmmf, options, pc, result >>
  /\ UNCHANGED deriverVars
  /\ UNCHANGED compilerVars

RunTypesDone ==
  /\ pc = "types"
  /\ todo.types = << >>
  /\ pc' = "models"
  /\ UNCHANGED << dmmf, options, todo, files, result >>
  /\ UNCHANGED deriverVars
  /\ UNCHANGED compilerVars

\* One turn of filteredModels.map
RunModel ==
  /\ pc = "models"
  /\ todo.models # << >>
  /\ IF options.generateFileTypes \notin KnownFileTypes
     THEN /\ pc' = "done"
          /\ result' = Thrown("Unknown 'generateFileTypes' value.")
          /\ UNCHANGED << todo, files >>
     ELSE /\ files' = files \o SwitchFiles(Head(todo.models), options.generateFileTypes)
                            \o ModelZodFiles(Head(todo.models), options)
          /\ todo' = [ todo EXCEPT !.models = Tail(@) ]
          /\ UNCHANGED << pc, result >>
  /\ UNCHANGED << dmmf, options >>
  /\ UNCHANGED deriverVars
  /\ UNCHANGED compilerVars

\* return [...typeFiles, ...modelFiles, ...enumFiles].flat()
RunReturn ==
  /\ pc = "models"
  /\ todo.models = << >>
  /\ pc' = "done"
  /\ result' = [ kind |-> "returned", files |-> files \o EnumFiles(dmmf, options) ]
  /\ UNCHANGED << dmmf, options, todo, files >>
  /\ UNCHANGED deriverVars
  /\ UNCHANGED compilerVars

RunNext ==
  \/ RunFilter
  \/ RunType
  \/ RunTypesDone
  \/ RunModel
  \/ RunReturn

RunSpec == RunInit /\ [][RunNext]_vars


\* ---------------------------------------------------- the compiler on its own

\* The five schemas a model gets.
SchemaKinds == { "connect", "create", "update", "entity", "plain" }

\* The scalar type names of a registry: those of the table and two the table
\* lacks.
ScalarTypeNames == (DOMAIN PrismaScalarToZod) \cup { "Geometry", "Unsupported" }

\* Documentation with or without a custom-type tag.
CustomTypeDocs == { {}, { DTO_OVERRIDE_TYPE }, { DTO_CAST_TYPE } }

\* The fields handed to the compiler: scalars of every type name, with or
\* without an id, a default generator and @updatedAt; enums; relations and
\* embedded-type fields.
CompilerFields ==
  { Field("f1", "scalar", type, list, req, key, dflt, upd, FALSE, "", << >>, d) :
      type \in ScalarTypeNames, <<list, key>> \in { <<FALSE, "id">>, <<FALSE, "none">>, <<TRUE, "none">> },
      req \in BOOLEAN, dflt \in { "none", "uuid", "now" }, upd \in BOOLEAN,
      d \in CustomTypeDocs }
    \cup EnumFields("f1", CustomTypeDocs)
    \cup RelationFields("f1", { << >> }, CustomTypeDocs)
    \cup TypeFields("f1", CustomTypeDocs)

\* The overrides a deriver hands to mapDMMFToParsedField beside modelName:
\* none (connect), isNullable alone (create), or both flags.
CompilerOverrides ==
  { << >> } \cup { [ isNullable |-> n ] : n \in BOOLEAN }
    \cup { [ isRequired |-> TRUE, isNullable |-> n ] : n \in BOOLEAN }

ParsedFields ==
  { mapDMMFToParsedField(f, o @@ [ modelName |-> ModelName ]) :
      f \in CompilerFields, o \in CompilerOverrides }

CompileInit ==
  /\ fields = << >>
  /\ loaded = << >>
  /\ last = NoCall
  /\ schema = NoSchema
  /\ RunIdle
  /\ parsed \in ParsedFields
  /\ compiled = NoValidator

\* fieldToZodValidator(field, { schemaName, isUpdateSchema })
Compile ==
  \E kind \in SchemaKinds, isUpdateSchema \in BOOLEAN :
    /\ compiled' = [ kind |-> kind, isUpdateSchema |-> isUpdateSchema,
                     validator |-> fieldToZodValidator(parsed, kind, isUpdateSchema) ]
    /\ UNCHANGED parsed
    /\ UNCHANGED deriverVars
    /\ UNCHANGED runVars

CompileNext == Compile

CompileSpec == CompileInit /\ [][CompileNext]_vars

\* ------------------------------------------------------------------ claims

\* The field of the registry that an emitted field was made from.
Source(name) == CHOOSE g \in Range(fields) : g.name = name

EmittedNames(params) == { params.fields[i].name : i \in DOMAIN params.fields }

Last(s) == s[Len(s)]

\* C1: Update optionality law.  In the update schema the validator of every
\* non-id field ends with .nullish() when the field lacks @DtoUpdateRequired,
\* and carries neither .nullish() nor .nullable() when it has it.
C1_UpdateOptionalityLaw ==
  schema.kind = "update" =>
    \A i \in DOMAIN schema.props :
      LET f == last.params.fields[i]
          v == schema.props[i].validator
      IN  ~f.isId =>
            IF isAnnotatedWith(f, DTO_UPDATE_REQUIRED)
            THEN ".nullish()" \notin Range(v) /\ ".nullable()" \notin Range(v)
            ELSE Last(v) = ".nullish()"

EntityComplementary(g) ==
  IF \E r \in Range(fields) : Includes(r.relationFromFields, g.name)
  THEN \E r \in Range(fields) :
         /\ Includes(r.relationFromFields, g.name)
         /\ (r.isRequired \/ DTO_RELATION_REQUIRED \in r.documentation)
  ELSE IF g.kind = "object" /\ g.relationName # ""
       THEN ~g.isRequired \/ DTO_RELATION_REQUIRED \in g.documentation
       ELSE g.isRequired

CandidateNames ==
  { g.name : g \in { h \in Range(fields) :
      (h.isId \/ h.isUnique) /\ DTO_CONNECT_HIDDEN \notin h.documentation } }

\* C3: Connect singular/plural rule.  A single candidate is emitted required
\* and not nullable; with two or more candidates every emitted field is
\* optional and not nullable.
C3_ConnectSingularPlural ==
  last.kind = "connect" =>
    /\ Cardinality(CandidateNames) = 1 =>
         /\ EmittedNames(last.params) = CandidateNames
         /\ \A i \in DOMAIN last.params.fields :
              last.params.fields[i].isRequired /\ ~Truthy(last.params.fields[i], "isNullable")
    /\ Cardinality(CandidateNames) >= 2 =>
         \A i \in DOMAIN last.params.fields :
           ~last.params.fields[i].isRequired /\ ~Truthy(last.params.fields[i], "isNullable")

EmittedAs(params, name) ==
  CHOOSE f \in Range(params.fields) : f.name = name

\* The other reasons for which the create deriver leaves a field out.
CreateExcluded(g) ==
  \/ g.isReadOnly
  \/ DTO_CREATE_HIDDEN \in g.documentation
  \/ /\ DTO_RELATION_INCLUDE_ID \notin g.documentation
     /\ \E r \in Range(fields) : Includes(r.relationFromFields, g.name)

\* C4 as claimed: a field with an autoincrement default and neither
\* @DtoCreateOptional nor @DtoCreateRequired is absent from the create output
\* whatever showDefaultValues is; with @DtoCreateRequired, and neither
\* read-only nor hidden from create, it is present and required.
C4_CreateDefaultOmission ==
  last.kind = "create" =>
    \A g \in Range(fields) :
      g.default = "autoincrement" =>
        /\ (DTO_CREATE_OPTIONAL \notin g.documentation
              /\ DTO_CREATE_REQUIRED \notin g.documentation)
             => g.name \notin EmittedNames(last.params)
        /\ (DTO_CREATE_REQUIRED \in g.documentation /\ ~g.isReadOnly
              /\ DTO_CREATE_HIDDEN \notin g.documentation)
             => /\ g.name \in EmittedNames(last.params)
                /\ EmittedAs(last.params, g.name).isRequired

\* C4 (amended): an untagged field with an autoincrement default is absent
\* from the create output for either value of showDefaultValues when it is an
\* id; when it is a schema-required non-id field it is absent with
\* showDefaultValues off and, unless excluded for another reason, present
\* with isRequired = false with showDefaultValues on.  With
\* @DtoCreateRequired, and neither read-only, hidden from create nor an
\* untagged foreign-key scalar, it is present with isRequired = true.
C4_CreateDefaultOmissionAmended ==
  last.kind = "create" =>
    \A g \in Range(fields) :
      g.default = "autoincrement" =>
        /\ (DTO_CREATE_OPTIONAL \notin g.documentation
              /\ DTO_CREATE_REQUIRED \notin g.documentation)
             => /\ g.isId => g.name \notin EmittedNames(last.params)
                /\ (~g.isId /\ g.isRequired /\ ~last.showDefaultValues)
                     => g.name \notin EmittedNames(last.params)
                /\ (~g.isId /\ g.isRequired /\ last.showDefaultValues /\ ~CreateExcluded(g))
                     => /\ g.name \in EmittedNames(last.params)
                        /\ ~EmittedAs(last.params, g.name).isRequired
        /\ (DTO_CREATE_REQUIRED \in g.documentation /\ ~CreateExcluded(g))
             => /\ g.name \in EmittedNames(last.params)
                /\ EmittedAs(last.params, g.name).isRequired

\* C4 witness: create has run with showDefaultValues on over a model with an
\* untagged autoincrement id, which it left out.
C4_Witness ==
  /\ last.kind = "create" /\ last.showDefaultValues
  /\ \E g \in Range(fields) :
       /\ g.default = "autoincrement" /\ g.isId /\ g.documentation = {}
       /\ g.name \notin EmittedNames(last.params)
  /\ last.params.fields # << >>

\* C5: Representation partitioning.  When the plain deriver is called right
\* after the update deriver, or the update deriver right after the plain
\* one, the names update emitted are among the names plain emitted.
C5_UpdateSubsetOfPlain ==
  [][ /\ (last.kind = "update" /\ last'.kind = "plain")
           => EmittedNames(last.params) \subseteq EmittedNames(last'.params)
      /\ (last.kind = "plain" /\ last'.kind = "update")
           => EmittedNames(last'.params) \subseteq EmittedNames(last.params) ]_vars

\* C5 witness: update has emitted a field of a model of which it left an id out.
C5_Witness ==
  /\ last.kind = "update"
  /\ last.params.fields # << >>
  /\ \E g \in Range(fields) : g.isId /\ g.name \notin EmittedNames(last.params)

\* C6: Custom-type short-circuit.  After the entity, plain, create or update
\* deriver, a relation or embedded-type field tagged @DtoOverrideType or
\* @DtoCastType has no import of a schema of its target and no entry in
\* lazyRelations.
C6_CustomTypeShortCircuit ==
  last.kind \in { "entity", "plain", "create", "update" } =>
    \A g \in Range(fields) :
      ( g.kind = "object"
        /\ (DTO_OVERRIDE_TYPE \in g.documentation \/ DTO_CAST_TYPE \in g.documentation) )
      => /\ g.type \notin Range(last.params.lazyRelations)
         /\ \A i \in DOMAIN last.params.imports : \A k \in SchemaKinds :
              ZodSchemaName(k, g.type) \notin Range(last.params.imports[i].destruct)

\* C7: The registry is read-only.  After any sequence of deriver calls every
\* attribute of every field is as it was loaded.
C7_RegistryReadOnly == fields = loaded

\* What a deriver returns on the registry as loaded.
FirstRun(kind, showDefaultValues) ==
  CASE kind = "connect" -> computeConnectZodParams(loaded)
    [] kind = "create" -> computeCreateZodParams(loaded, showDefaultValues)
    [] kind = "update" -> computeUpdateZodParams(loaded)
    [] kind = "entity" -> computeEntityZodParams(loaded)
    [] kind = "plain" -> computePlainZodParams(loaded)

\* C8: Determinism and order independence.  Whatever derivers were called
\* before, a deriver returns the bundle it returns on the registry as loaded.
C8_Deterministic ==
  last.kind # "none" => last.params = FirstRun(last.kind, last.showDefaultValues)

\* C9 as claimed: with generateFileTypes = entity and an embedded type in the
\* registry, run throws, and no file specification is ever built.
C9_EntityOnlyWithTypesFatal ==
  (options.generateFileTypes = "entity" /\ Len(dmmf.types) > 0) =>
    /\ files = << >>
    /\ pc = "done" => result.kind = "thrown"

\* C9 (amended): with generateFileTypes = entity and an embedded type that is
\* not annotated @DtoIgnoreModel, run throws before any type or model is
\* processed, and no file specification is ever built.
C9_EntityOnlyWithKeptTypesFatal ==
  ( /\ options.generateFileTypes = "entity"
    /\ \E i \in DOMAIN dmmf.types : DTO_IGNORE_MODEL \notin dmmf.types[i].documentation ) =>
    /\ files = << >>
    /\ pc \in { "start", "done" }
    /\ pc = "done" => result.kind = "thrown"

\* C9 witness: run has ended on an entity-only call whose registry holds a
\* model and an embedded type that is not ignored.
C9_Witness ==
  /\ pc = "done"
  /\ options.generateFileTypes = "entity"
  /\ \E i \in DOMAIN dmmf.types : DTO_IGNORE_MODEL \notin dmmf.types[i].documentation
  /\ \E i \in DOMAIN dmmf.models : DTO_IGNORE_MODEL \notin dmmf.models[i].documentation

\* C10: Unknown output mode is fatal.  With a generateFileTypes value other
\* than all, dto and entity, run ends by throwing, whatever the registry.
C10_UnknownModeFatal ==
  (options.generateFileTypes \notin { "all", "dto", "entity" } /\ pc = "done") =>
    result.kind = "thrown"

\* The foreign-key scalars of the model and whether a relation they back is
\* schema-required or tagged @DtoRelationRequired.
BacksRelation(g) == \E r \in Range(fields) : Includes(r.relationFromFields, g.name)

BacksRequiredRelation(g) ==
  \E r \in Range(fields) :
    /\ Includes(r.relationFromFields, g.name)
    /\ (r.isRequired \/ DTO_RELATION_REQUIRED \in r.documentation)

\* C11 as claimed: every field the plain deriver emits has isRequired equal
\* to the schema-level isRequired and isNullable equal to its negation.
C11_PlainSchemaRequired ==
  last.kind = "plain" =>
    \A i \in DOMAIN last.params.fields :
      LET f == last.params.fields[i]
          g == Source(f.name)
      IN  f.isRequired = g.isRequired /\ f.isNullable = ~g.isRequired

\* C11 (amended): every field the plain deriver emits has isRequired = true,
\* whatever the schema-level isRequired, and isNullable equal to the negation
\* of the schema-level isRequired.
C11_PlainRequiredNullable ==
  last.kind = "plain" =>
    \A i \in DOMAIN last.params.fields :
      LET f == last.params.fields[i]
          g == Source(f.name)
      IN  f.isRequired = TRUE /\ f.isNullable = ~g.isRequired

\* C11 witness: the plain deriver has emitted a schema-optional field beside
\* a schema-required one.
C11_Witness ==
  /\ last.kind = "plain"
  /\ \E i, j \in DOMAIN last.params.fields :
       /\ ~Source(last.params.fields[i].name).isRequired
       /\ Source(last.params.fields[j].name).isRequired

\* C12 as claimed: every field the create deriver emits has isNullable equal
\* to the negation of its isRequired in the create representation.
C12_CreateNullableInverse ==
  last.kind = "create" =>
    \A i \in DOMAIN last.params.fields :
      last.params.fields[i].isNullable = ~last.params.fields[i].isRequired

\* C12 (amended): a field the create deriver emits is nullable exactly when
\* it is schema-optional and its isRequired in the create representation is
\* false; a schema-required field made optional by @DtoCreateOptional or by
\* the required-with-default rule is neither required nor nullable.
C12_CreateNullableUnlessRequired ==
  last.kind = "create" =>
    \A i \in DOMAIN last.params.fields :
      LET f == last.params.fields[i]
          g == Source(f.name)
      IN  f.isNullable = (~g.isRequired /\ ~f.isRequired)

\* C12 witness: the create deriver, with showDefaultValues on, has emitted a
\* schema-required field as optional.
C12_Witness ==
  /\ last.kind = "create" /\ last.showDefaultValues
  /\ \E i \in DOMAIN last.params.fields :
       /\ Source(last.params.fields[i].name).isRequired
       /\ ~last.params.fields[i].isRequired

\* C13: Relation-scalar disjunction.  In the plain, create and update
\* representations an untagged foreign-key scalar is absent, and one tagged
\* @DtoRelationIncludeId is emitted with isRequired = true iff a relation it
\* backs is schema-required or tagged @DtoRelationRequired, and with
\* isNullable = true otherwise.
C13_RelationScalarDisjunction ==
  last.kind \in { "plain", "create", "update" } =>
    \A g \in Range(fields) :
      BacksRelation(g) =>
        IF DTO_RELATION_INCLUDE_ID \notin g.documentation
        THEN g.name \notin EmittedNames(last.params)
        ELSE g.name \in EmittedNames(last.params) =>
               LET f == EmittedAs(last.params, g.name)
               IN  /\ f.isRequired <=> BacksRequiredRelation(g)
                   /\ ~BacksRequiredRelation(g) => f.isNullable

\* The import requirements of a bundle that name a schema of `type`.
ImportsOf(params, type) ==
  { i \in DOMAIN params.imports :
      \E k \in SchemaKinds : ZodSchemaName(k, type) \in Range(params.imports[i].destruct) }

\* How many times `type` was appended to lazyRelations.
LazyCount(params, type) ==
  Cardinality({ i \in DOMAIN params.lazyRelations : params.lazyRelations[i] = type })

\* The relation and embedded-type fields without a custom-type tag.
PlainObject(g) ==
  /\ g.kind = "object"
  /\ DTO_OVERRIDE_TYPE \notin g.documentation /\ DTO_CAST_TYPE \notin g.documentation

\* The fields of that sort that refer to another entry of the registry and
\* that the last deriver emitted: each registers one import of its target
\* and the target's name in lazyRelations.
CrossModelImported ==
  \A g \in Range(fields) :
    ( PlainObject(g) /\ g.type # ModelName /\ g.type \in RegistryNames
      /\ g.name \in EmittedNames(last.params) )
    => /\ Cardinality(ImportsOf(last.params, g.type)) = 1
       /\ LazyCount(last.params, g.type) >= 1

\* C14 as claimed: a relation or embedded-type field whose type is the owning
\* model's name brings no import and no entry of lazyRelations; a cross-model
\* one whose target is in the registry brings exactly one import of the
\* target and the target's name in lazyRelations.
C14_SelfReferenceException ==
  last.kind \in { "entity", "plain", "create", "update" } =>
    /\ (\E g \in Range(fields) : PlainObject(g) /\ g.type = ModelName)
         => /\ ImportsOf(last.params, ModelName) = {}
            /\ LazyCount(last.params, ModelName) = 0
    /\ CrossModelImported

\* The self-referential relation fields the entity deriver emits.
SelfRelations ==
  { g.name : g \in { h \in Range(fields) :
      /\ PlainObject(h) /\ h.relationName # "" /\ h.type = ModelName
      /\ DTO_ENTITY_HIDDEN \notin h.documentation } }

\* C14 (amended): a self-typed relation or embedded-type field brings no
\* import in any deriver; the plain, create and update derivers and a
\* self-typed embedded-type field bring no entry of lazyRelations, but the
\* entity deriver appends the model's own name once for every self-referential
\* relation field it emits.  The cross-model part is as claimed.
C14_SelfReferenceLazyInEntity ==
  last.kind \in { "entity", "plain", "create", "update" } =>
    /\ ImportsOf(last.params, ModelName) = {}
    /\ LazyCount(last.params, ModelName) =
         IF last.kind = "entity" THEN Cardinality(SelfRelations) ELSE 0
    /\ CrossModelImported

\* C14 witness: the entity deriver has emitted a self-referential relation.
C14_Witness ==
  /\ last.kind = "entity"
  /\ SelfRelations # {}
  /\ LazyCount(last.params, ModelName) = 1

\* C18: No dangling deferred reference.  In a generated entity, plain, create
\* or update schema, the schema name inside the z.lazy of an emitted relation
\* or embedded-type field whose target is in the registry is the schema's own
\* name or a name one of the schema's import requirements brings.
C18_NoDanglingReference ==
  schema.kind \in { "entity", "plain", "create", "update" } =>
    \A i \in DOMAIN schema.props :
      LET f == last.params.fields[i]
          v == schema.props[i].validator
      IN  ( f.kind = "object" /\ f.type \in RegistryNames /\ v[1] = "z.lazy(() => " )
          => \/ v[2] = schema.name
             \/ \E j \in DOMAIN schema.imports : v[2] \in Range(schema.imports[j].destruct)

Modifiers == { ".array()", ".nullish()", ".nullable()" }

\* The modifiers of a validator expression, in the order they were appended.
ModifiersOf(v) == SelectSeq(v, LAMBDA t : t \in Modifiers)

\* The part of a validator expression that follows its base expression.
TailOf(v, n) == SubSeq(v, Len(v) - n + 1, Len(v))

\* C15: Optionality composition.  The compiler appends .array() iff isList,
\* before any optionality modifier, and then exactly one of: .nullish() when
\* the update flag is on and the field is no id, or when isRequired is false;
\* .nullable() when isRequired and isNullable are both true; nothing when
\* isRequired is true and isNullable false.  An id compiled with the update
\* flag on follows the non-update rules.
C15_OptionalityComposition ==
  compiled.kind # "none" =>
    LET f == parsed
        v == compiled.validator
        nullable == "isNullable" \in DOMAIN f /\ f.isNullable
        optionality ==
          IF (compiled.isUpdateSchema /\ ~f.isId) \/ ~f.isRequired THEN << ".nullish()" >>
          ELSE IF nullable THEN << ".nullable()" >>
          ELSE << >>
        expected == (IF f.isList THEN << ".array()" >> ELSE << >>) \o optionality
    IN  /\ ModifiersOf(v) = expected
        /\ TailOf(v, Len(expected)) = expected

\* C15 witness: a required, nullable id has been compiled with the update
\* flag on, and a list has been compiled with it.
C15_Witness ==
  /\ compiled.kind # "none" /\ compiled.isUpdateSchema
  /\ \/ /\ parsed.isId /\ parsed.isRequired
        /\ "isNullable" \in DOMAIN parsed /\ parsed.isNullable
        /\ Last(compiled.validator) = ".nullable()"
     \/ /\ parsed.isList
        /\ TailOf(compiled.validator, 2) = << ".array()", ".nullish()" >>

CustomTyped(f) ==
  DTO_OVERRIDE_TYPE \in f.documentation \/ DTO_CAST_TYPE \in f.documentation

IsoDateTime == "z.iso.datetime().pipe(z.transform((v) => new Date(v)))"

\* C16: Validator resolution order.  The base expression is that of the
\* first matching rule among custom-type tag, relation or embedded type,
\* enum, uuid-defaulted String id, auto-timestamp DateTime, scalar table.
C16_ResolutionOrder ==
  compiled.kind # "none" =>
    LET f == parsed
        base == compiled.validator[1]
    IN  IF CustomTyped(f) THEN base = "z.any()"
        ELSE IF f.kind = "object"
             THEN /\ base = "z.lazy(() => "
                  /\ compiled.validator[2] = ZodSchemaName(compiled.kind, f.type)
        ELSE IF f.kind = "enum"
             THEN base = "z.nativeEnum(" /\ compiled.validator[2] = f.type
        ELSE IF f.isId /\ f.type = "String" /\ f.default = "uuid" THEN base = "z.uuidv7()"
        ELSE IF f.type = "DateTime" /\ (f.isUpdatedAt \/ f.default = "now")
             THEN base = IsoDateTime
        ELSE base \notin { "z.lazy(() => ", "z.nativeEnum(", "z.uuidv7()", IsoDateTime }

\* C16 witness: a relation and an enum carrying a custom-type tag, and an
\* untagged uuid-defaulted String id, each match several rules.
C16_Witness ==
  /\ compiled.kind # "none"
  /\ \/ CustomTyped(parsed) /\ parsed.kind = "object" /\ parsed.relationName # ""
     \/ CustomTyped(parsed) /\ parsed.kind = "enum"
     \/ ~CustomTyped(parsed) /\ parsed.isId /\ parsed.type = "String" /\ parsed.default = "uuid"

\* The scalar fields that reach the scalar table.
ReachesScalarTable(f) ==
  /\ f.kind = "scalar" /\ ~CustomTyped(f)
  /\ ~(f.isId /\ f.type = "String" /\ f.default = "uuid")
  /\ ~(f.type = "DateTime" /\ (f.isUpdatedAt \/ f.default = "now"))

====
